---- MODULE Spec2Model ----
(***************************************************************************)
(* The training loop of BARLineDP (src/train_model.py, train_model): the   *)
(* class weights, the per-batch loss construction of the train and the     *)
(* validation phase, the optimisation steps, the model selection and the   *)
(* checkpoint.                                                             *)
(*                                                                         *)
(* Real numbers are exact fractions [num, den]; the float not-a-number is  *)
(* the fraction 0/0.  The encoder and the attention network are outside    *)
(* the source: what they return for an example (file logit, raw line       *)
(* attentions) is an input of every batch, drawn from NetOutputs.  The     *)
(* transcendental parts of the losses (the per-example binary cross        *)
(* entropy term, the value of jsd on finite inputs) are inputs as well,    *)
(* carried in the same record.  roc_auc_score is sklearn's: it raises       *)
(* ValueError when y_true holds a single class, and train_model catches    *)
(* nothing.  args.k is the default 0.2.                                    *)
(***************************************************************************)
EXTENDS Integers, Sequences, FiniteSets, TLC

VARIABLES
    num_epochs,          \* args.num_epochs
    train_set,           \* x_train_vec: sequence of [label, line_label]
    valid_set,           \* x_valid_vec
    weight_dict,         \* {'defect': .., 'clean': ..}
    criterion_weight,    \* criterion_file.weight
    heap,                \* the network objects: address -> parameter state
    best_model,          \* address of the best snapshot, None_ref before the first one
    optimizer,           \* optimizer state: number of steps taken
    grad,                \* norm of the .grad of the network's parameters
    best_auc,
    best_epoch,
    val_auc_all_epochs,
    epoch,
    pc,
    remaining,           \* train_dl: indices the shuffled sampler has not served yet
    vi,                  \* valid_dl: index of the first example of the next batch
    batch,               \* the locals of the batch being processed
    outputs,             \* file logits of the validation examples of this epoch
    outputs_labels,
    checkpoint,          \* the content of best_model.pth
    csv_rows,            \* rows of <dataset>-loss_record.csv
    steps_done,          \* history: the calls made for the current training batch
    save_log,            \* history: the epochs at which torch.save was called
    train_end_params     \* history: the parameters at the end of each train phase

vars == <<num_epochs, train_set, valid_set, weight_dict, criterion_weight, heap,
          best_model, optimizer, grad, best_auc, best_epoch, val_auc_all_epochs,
          epoch, pc, remaining, vi, batch, outputs, outputs_labels, checkpoint,
          csv_rows, steps_done, save_log, train_end_params>>

---------------------------------------------------------------------------
(* Bounds of the model *)

MaxEpochs == 2
BatchSize == 2
MaxGradExcess == 1

\* one full batch and one more example: the train loader drops it
\* (drop_last=True), the validation loader serves it as a short last batch
NumTrain == BatchSize + 1
NumValid == BatchSize + 1

(* Program constants *)

max_grad_norm == 5

args_k == [num |-> 1, den |-> 5]

---------------------------------------------------------------------------
(* Exact arithmetic standing for the float arithmetic of the source *)

RECURSIVE GCD(_, _)
GCD(a, b) == IF b = 0 THEN a ELSE GCD(b, a % b)

NaN == [num |-> 0, den |-> 0]

IsNaN(x) == x.den = 0

\* n / d for n >= 0, d >= 0; the only division by zero of the source is 0 / 0
Frac(n, d) ==
    IF d = 0 THEN NaN
    ELSE LET g == GCD(n, d) IN [num |-> n \div g, den |-> d \div g]

Whole(n) == [num |-> n, den |-> 1]

Add(a, b) ==
    IF IsNaN(a) \/ IsNaN(b) THEN NaN
    ELSE Frac(a.num * b.den + b.num * a.den, a.den * b.den)

Sub(a, b) ==
    IF IsNaN(a) \/ IsNaN(b) THEN NaN
    ELSE Frac(a.num * b.den - b.num * a.den, a.den * b.den)

Mul(a, b) ==
    IF IsNaN(a) \/ IsNaN(b) THEN NaN
    ELSE Frac(a.num * b.num, a.den * b.den)

\* a <= b; every comparison with not-a-number is false
Leq(a, b) == ~IsNaN(a) /\ ~IsNaN(b) /\ a.num * b.den <= b.num * a.den

RECURSIVE SumSeq(_)
SumSeq(s) == IF s = <<>> THEN Whole(0) ELSE Add(s[1], SumSeq(Tail(s)))

Mean(s) == Mul(SumSeq(s), Frac(1, Len(s)))

SeqMax(s) == CHOOSE x \in {s[i] : i \in DOMAIN s} : \A i \in DOMAIN s : Leq(s[i], x)

SeqMin(s) == CHOOSE x \in {s[i] : i \in DOMAIN s} : \A i \in DOMAIN s : Leq(x, s[i])

---------------------------------------------------------------------------
(* The data *)

None == <<>>

\* Example kinds: a clean file, a defective file without line annotation, a
\* defective file with an annotated line (top_k = 1), and a short defective
\* file with an annotated line (fewer than 5 lines: top_k = 0)
Clean == [label |-> 0, line_label |-> <<0, 0, 0, 0, 0>>]
DefectNoLines == [label |-> 1, line_label |-> <<0, 0, 0, 0, 0>>]
DefectLines == [label |-> 1, line_label |-> <<0, 1, 0, 0, 0>>]
DefectShort == [label |-> 1, line_label |-> <<1, 0>>]

TrainKinds == <<Clean, DefectNoLines, DefectLines>>
ValidKinds == <<Clean, DefectLines, DefectShort>>

\* the data sets of n examples of the given kinds, listed kind by kind
DataSets(kinds, n) ==
    { [i \in 1..n |-> kinds[s[i]]] :
        s \in {t \in [1..n -> DOMAIN kinds] : \A i \in 1..(n - 1) : t[i] <= t[i + 1]} }

Labels(exs) == [i \in DOMAIN exs |-> exs[i].label]

\* What the frozen encoder and the attention network return for one example
\* (file logit, shape of the raw line attentions), with the value of the
\* example's cross entropy term and of jsd on its finite top-k attentions
NetOutputs ==
    { [logit |-> 0, bce |-> 1, att |-> "flat", jsd |-> 1],
      [logit |-> 1, bce |-> 2, att |-> "peaked", jsd |-> 2] }

AttRow(shape, n) == [i \in 1..n |-> IF shape = "flat" THEN 1 ELSE i]

GradNorms == max_grad_norm .. (max_grad_norm + MaxGradExcess)

---------------------------------------------------------------------------
(* Class weights: lines 114-118 and get_loss_weight *)

Count(y, c) == Cardinality({i \in DOMAIN y : y[i] = c})

\* np.unique(train_label): the classes present, ascending
unique(y) ==
    IF Count(y, 0) > 0 /\ Count(y, 1) > 0 THEN <<0, 1>>
    ELSE IF Count(y, 0) > 0 THEN <<0>> ELSE <<1>>

\* sklearn's class_weight='balanced': n_samples / (n_classes * bincount(y)),
\* one weight per class of `classes`, in their order
compute_class_weight(classes, y) ==
    [j \in DOMAIN classes |-> Frac(Len(y), Len(classes) * Count(y, classes[j]))]

make_weight_dict(train_label) ==
    LET sample_weights == compute_class_weight(unique(train_label), train_label)
    IN  [defect |-> SeqMax(sample_weights), clean |-> SeqMin(sample_weights)]

get_loss_weight(labels, wd) ==
    [i \in DOMAIN labels |-> IF labels[i] = 0 THEN wd.clean ELSE wd.defect]

\* nn.BCEWithLogitsLoss with mean reduction: the per-example terms, each
\* multiplied by its weight when criterion_file.weight is set
criterion_file(bce, weight) ==
    IF weight = None THEN Mean([i \in DOMAIN bce |-> Whole(bce[i])])
    ELSE Mean([i \in DOMAIN bce |-> Mul(weight[i], Whole(bce[i]))])

---------------------------------------------------------------------------
(* The line loss and the blend: lines 195-220 and 255-280 *)

RowMin(att) == CHOOSE x \in {att[i] : i \in DOMAIN att} : \A i \in DOMAIN att : x <= att[i]

RowMax(att) == CHOOSE x \in {att[i] : i \in DOMAIN att} : \A i \in DOMAIN att : att[i] <= x

\* (line_atts - att_mins) / (att_maxs - att_mins)
min_max_normalize(att) ==
    [i \in DOMAIN att |-> Frac(att[i] - RowMin(att), RowMax(att) - RowMin(att))]

\* mutant of skip_example: the line labels are not looked at
skip_clean_only(file_label, line_label) == file_label = 0

\* the test that skips an example
skip_example(file_label, line_label) ==
    file_label = 0 \/ ~(\E j \in DOMAIN line_label : line_label[j] = 1)

top_k(line_label) == (2 * Len(line_label)) \div 10

\* jsd of the top_k highest attentions against their labels.  The sum over no
\* position is 0; softmax of a row holding not-a-number is not-a-number (a
\* min-max normalised row holds it in every position or in none); otherwise
\* the value is `val`
jsd(att, line_label, val) ==
    IF top_k(line_label) = 0 THEN Whole(0)
    ELSE IF \E i \in DOMAIN att : IsNaN(att[i]) THEN NaN
    ELSE Whole(val)

\* the loop over the examples of the batch, from example i on
RECURSIVE line_loop(_, _, _, _, _)
line_loop(exs, atts, outs, i, acc) ==
    IF i > Len(exs) THEN acc
    ELSE IF skip_example(exs[i].label, exs[i].line_label)
         THEN line_loop(exs, atts, outs, i + 1, acc)
         ELSE line_loop(exs, atts, outs, i + 1,
                        [cnt |-> acc.cnt + 1,
                         losses |-> Append(acc.losses,
                                           jsd(atts[i], exs[i].line_label, outs[i].jsd))])

aggregate(line_losses) == IF Len(line_losses) > 0 THEN Mean(line_losses) ELSE Whole(0)

\* mutant of blend_k: the count is divided by the configured batch size
blend_k_batch_size(cnt, labels) == Mul(args_k, Frac(cnt, BatchSize))

\* k = args.k * (cnt / len(labels))
blend_k(cnt, labels) == Mul(args_k, Frac(cnt, Len(labels)))

\* loss = (1 - k) * file_loss + k * line_loss
combine(k, file_loss, line_loss) ==
    Add(Mul(Sub(Whole(1), k), file_loss), Mul(k, line_loss))

\* the loss of one batch, as both phases compute it
batch_loss(phase, exs, outs, weight) ==
    LET labels == Labels(exs)
        file_loss == criterion_file([i \in DOMAIN outs |-> outs[i].bce], weight)
        raw == [i \in DOMAIN exs |-> AttRow(outs[i].att, Len(exs[i].line_label))]
        line_atts == [i \in DOMAIN raw |-> min_max_normalize(raw[i])]
        lp == line_loop(exs, line_atts, outs, 1, [cnt |-> 0, losses |-> <<>>])
        line_loss == aggregate(lp.losses)
        k == blend_k(lp.cnt, labels)
    IN  [phase |-> phase, exs |-> exs, outs |-> outs, labels |-> labels,
         weight |-> weight, file_loss |-> file_loss, raw_atts |-> raw,
         line_atts |-> line_atts, cnt |-> lp.cnt, line_losses |-> lp.losses,
         line_loss |-> line_loss, k |-> k,
         loss |-> combine(k, file_loss, line_loss)]

NoBatch == [phase |-> "none"]

---------------------------------------------------------------------------
(* Validation metric, model selection and checkpoint: lines 285-305 *)

\* mutant of roc_auc_score: an undefined AUC is reported as 0
roc_auc_score_default(y_gt, y_prob) ==
    LET pos == {i \in DOMAIN y_gt : y_gt[i] = 1}
        neg == {i \in DOMAIN y_gt : y_gt[i] = 0}
        wins == Cardinality({p \in pos \X neg : y_prob[p[1]] > y_prob[p[2]]})
        ties == Cardinality({p \in pos \X neg : y_prob[p[1]] = y_prob[p[2]]})
    IN  [raised |-> FALSE,
         value |-> IF pos = {} \/ neg = {} THEN Whole(0)
                   ELSE Frac(2 * wins + ties, 2 * Cardinality(pos) * Cardinality(neg))]

\* sklearn's roc_auc_score: the share of (defective, clean) pairs the scores
\* order correctly, a tie counting one half; with a single class in y_gt it
\* raises ValueError.  The sigmoid is increasing, so the probabilities are
\* ordered as the logits
roc_auc_score(y_gt, y_prob) ==
    LET pos == {i \in DOMAIN y_gt : y_gt[i] = 1}
        neg == {i \in DOMAIN y_gt : y_gt[i] = 0}
        wins == Cardinality({p \in pos \X neg : y_prob[p[1]] > y_prob[p[2]]})
        ties == Cardinality({p \in pos \X neg : y_prob[p[1]] = y_prob[p[2]]})
    IN  IF pos = {} \/ neg = {}
        THEN [raised |-> TRUE, value |-> NaN]
        ELSE [raised |-> FALSE,
              value |-> Frac(2 * wins + ties, 2 * Cardinality(pos) * Cardinality(neg))]

\* mutant of accepts: valid_auc > best_auc
accepts_strictly(valid_auc, best) == Leq(best, valid_auc) /\ best # valid_auc

\* valid_auc >= best_auc
accepts(valid_auc, best) == Leq(best, valid_auc)

\* the network object of line 138
model == 1

None_ref == 0

\* mutant of deepcopy: best_model = model, a second reference to the network
same_object(h, ref) == [heap |-> h, ref |-> ref]

\* copy.deepcopy(model): a new object holding a copy of the parameters (the
\* object best_model referred to before is garbage, its address is reused)
deepcopy(h, ref) == [heap |-> <<h[1], h[ref]>>, ref |-> 2]

\* mutant of is_last_epoch: epoch % 1 == 0, true in every epoch
every_epoch(e, n) == e % 1 = 0

\* epoch % args.num_epochs == 0
is_last_epoch(e, n) == e % n = 0

\* mutant of valid_weight: the weight of the last training batch is left in place
stale_weight == criterion_weight

\* criterion_file.weight = None
valid_weight == None

---------------------------------------------------------------------------
(* The state machine *)

Init ==
    /\ num_epochs \in 1..MaxEpochs
    /\ train_set \in DataSets(TrainKinds, NumTrain)
    /\ valid_set \in DataSets(ValidKinds, NumValid)
    /\ weight_dict = make_weight_dict(Labels(train_set))
    /\ criterion_weight = None
    /\ heap = <<0>>
    /\ best_model = None_ref
    /\ optimizer = 0
    /\ grad = 0
    /\ best_auc = Whole(0)
    /\ best_epoch = 0
    /\ val_auc_all_epochs = <<>>
    /\ epoch = 0
    /\ pc = "for_epoch"
    /\ remaining = {}
    /\ vi = 1
    /\ batch = NoBatch
    /\ outputs = <<>>
    /\ outputs_labels = <<>>
    /\ checkpoint = None
    /\ csv_rows = 0
    /\ steps_done = <<>>
    /\ save_log = <<>>
    /\ train_end_params = <<>>

\* line 170-174: the next epoch starts, or the loop is over
ForEpoch ==
    /\ pc = "for_epoch"
    /\ IF epoch < num_epochs
       THEN /\ epoch' = epoch + 1
            /\ remaining' = 1..NumTrain
            /\ pc' = "train"
       ELSE /\ pc' = "done"
            /\ UNCHANGED <<epoch, remaining>>
    /\ UNCHANGED <<num_epochs, train_set, valid_set, weight_dict, criterion_weight,
                   heap, best_model, optimizer, grad, best_auc, best_epoch,
                   val_auc_all_epochs, vi, batch, outputs, outputs_labels,
                   checkpoint, csv_rows, steps_done, save_log,
                   train_end_params>>

\* lines 175-221: the sampler serves batch_size examples it has not served in
\* this epoch (shuffle=True, drop_last=True), listed here by index: the means
\* and counts below do not depend on the order inside a batch; then the loss
\* of the batch
TrainBatch ==
    /\ pc = "train"
    /\ Cardinality(remaining) >= BatchSize
    /\ \E idx \in [1..BatchSize -> remaining], outs \in [1..BatchSize -> NetOutputs] :
          /\ \A i \in 1..(BatchSize - 1) : idx[i] < idx[i + 1]
          /\ LET exs == [i \in 1..BatchSize |-> train_set[idx[i]]]
                 weight_tensor_file == get_loss_weight(Labels(exs), weight_dict)
             IN  /\ criterion_weight' = weight_tensor_file
                 /\ batch' = batch_loss("train", exs, outs, weight_tensor_file)
          /\ remaining' = remaining \ {idx[i] : i \in 1..BatchSize}
    /\ steps_done' = <<>>
    /\ pc' = "backward"
    /\ UNCHANGED <<num_epochs, train_set, valid_set, weight_dict, heap, best_model,
                   optimizer, grad, best_auc, best_epoch, val_auc_all_epochs, epoch,
                   vi, outputs, outputs_labels, checkpoint, csv_rows,
                   save_log, train_end_params>>

\* line 223: loss.backward() adds the gradient of the loss to .grad; the
\* locals of the batch are not read after it
Backward ==
    /\ pc = "backward"
    /\ \E g \in GradNorms : grad' = grad + g
    /\ steps_done' = Append(steps_done, "backward")
    /\ batch' = NoBatch
    /\ pc' = "step"
    /\ UNCHANGED <<num_epochs, train_set, valid_set, weight_dict, criterion_weight,
                   heap, best_model, optimizer, best_auc, best_epoch,
                   val_auc_all_epochs, epoch, remaining, vi, outputs,
                   outputs_labels, checkpoint, csv_rows, save_log,
                   train_end_params>>

\* line 224: optimizer.step() updates the parameters from .grad
OptimizerStep ==
    /\ pc = "step"
    /\ heap' = [heap EXCEPT ![model] = @ + 1]
    /\ optimizer' = optimizer + 1
    /\ steps_done' = Append(steps_done, "step")
    /\ pc' = "zero_grad"
    /\ UNCHANGED <<num_epochs, train_set, valid_set, weight_dict, criterion_weight,
                   best_model, grad, best_auc, best_epoch, val_auc_all_epochs, epoch,
                   remaining, vi, batch, outputs, outputs_labels, checkpoint,
                   csv_rows, save_log, train_end_params>>

\* line 225: optimizer.zero_grad()
ZeroGrad ==
    /\ pc = "zero_grad"
    /\ grad' = 0
    /\ steps_done' = Append(steps_done, "zero_grad")
    /\ pc' = "clip"
    /\ UNCHANGED <<num_epochs, train_set, valid_set, weight_dict, criterion_weight,
                   heap, best_model, optimizer, best_auc, best_epoch,
                   val_auc_all_epochs, epoch, remaining, vi, batch, outputs,
                   outputs_labels, checkpoint, csv_rows, save_log,
                   train_end_params>>

\* lines 226-227: nn.utils.clip_grad_norm_(model.parameters(), args.max_grad_norm)
\* scales .grad down to the norm max_grad_norm; the body of the loop ends
ClipGradNorm ==
    /\ pc = "clip"
    /\ grad' = IF grad > max_grad_norm THEN max_grad_norm ELSE grad
    /\ steps_done' = Append(steps_done, "clip_grad_norm")
    /\ pc' = "train"
    /\ UNCHANGED <<num_epochs, train_set, valid_set, weight_dict, criterion_weight,
                   heap, best_model, optimizer, best_auc, best_epoch,
                   val_auc_all_epochs, epoch, remaining, vi, batch, outputs,
                   outputs_labels, checkpoint, csv_rows, save_log,
                   train_end_params>>

\* lines 229-235: the train loader is exhausted; the validation phase starts
ValidBegin ==
    /\ pc = "train"
    /\ Cardinality(remaining) < BatchSize
    /\ criterion_weight' = valid_weight
    /\ outputs' = <<>>
    /\ outputs_labels' = <<>>
    /\ vi' = 1
    /\ remaining' = {}
    /\ train_end_params' = Append(train_end_params, heap[model])
    /\ pc' = "valid"
    /\ UNCHANGED <<num_epochs, train_set, valid_set, weight_dict, heap, best_model,
                   optimizer, grad, best_auc, best_epoch, val_auc_all_epochs, epoch,
                   batch, checkpoint, csv_rows, steps_done,
                   save_log>>

\* lines 237-281: the next batch of the validation loader (shuffle=False,
\* drop_last=False: the last batch may be shorter)
ValidBatch ==
    /\ pc = "valid"
    /\ vi <= NumValid
    /\ LET last == IF vi + BatchSize - 1 <= NumValid THEN vi + BatchSize - 1 ELSE NumValid
           exs == [i \in 1..(last - vi + 1) |-> valid_set[vi + i - 1]]
       IN  /\ \E outs \in [DOMAIN exs -> NetOutputs] :
                 /\ batch' = batch_loss("valid", exs, outs, criterion_weight)
                 /\ outputs' = outputs \o [i \in DOMAIN outs |-> outs[i].logit]
           /\ outputs_labels' = outputs_labels \o Labels(exs)
           /\ vi' = last + 1
    /\ UNCHANGED <<num_epochs, train_set, valid_set, weight_dict, criterion_weight,
                   heap, best_model, optimizer, grad, best_auc, best_epoch,
                   val_auc_all_epochs, epoch, pc, remaining, checkpoint, csv_rows,
                   steps_done, save_log, train_end_params>>

\* lines 283-289: the AUC of the epoch; the ValueError of roc_auc_score is
\* caught nowhere and ends train_model.  The locals of the validation phase
\* are not read after it
ComputeAuc ==
    /\ pc = "valid"
    /\ vi > NumValid
    /\ LET r == roc_auc_score(outputs_labels, outputs)
       IN  IF r.raised
           THEN /\ pc' = "failed"
                /\ UNCHANGED val_auc_all_epochs
           ELSE /\ pc' = "select"
                /\ val_auc_all_epochs' = Append(val_auc_all_epochs, r.value)
    /\ batch' = NoBatch
    /\ outputs' = <<>>
    /\ outputs_labels' = <<>>
    /\ UNCHANGED <<num_epochs, train_set, valid_set, weight_dict, criterion_weight,
                   heap, best_model, optimizer, grad, best_auc, best_epoch, epoch,
                   remaining, vi, checkpoint, csv_rows, steps_done, save_log,
                   train_end_params>>

\* lines 291-294
SelectBest ==
    /\ pc = "select"
    /\ LET valid_auc == val_auc_all_epochs[Len(val_auc_all_epochs)]
       IN  IF accepts(valid_auc, best_auc)
           THEN LET c == deepcopy(heap, model)
                IN  /\ heap' = c.heap
                    /\ best_model' = c.ref
                    /\ best_auc' = valid_auc
                    /\ best_epoch' = epoch
           ELSE UNCHANGED <<heap, best_model, best_auc, best_epoch>>
    /\ pc' = "epoch_end"
    /\ UNCHANGED <<num_epochs, train_set, valid_set, weight_dict, criterion_weight,
                   optimizer, grad, val_auc_all_epochs, epoch, remaining, vi, batch,
                   outputs, outputs_labels, checkpoint, csv_rows, steps_done, save_log, train_end_params>>

\* lines 296-312: the checkpoint in the last epoch, then the loss record
EpochEnd ==
    /\ pc = "epoch_end"
    /\ IF is_last_epoch(epoch, num_epochs)
       THEN /\ checkpoint' = [epoch |-> best_epoch,
                              model_state_dict |-> heap[best_model],
                              optimizer_state_dict |-> optimizer]
            /\ save_log' = Append(save_log, epoch)
       ELSE UNCHANGED <<checkpoint, save_log>>
    /\ csv_rows' = Len(val_auc_all_epochs)
    /\ pc' = "for_epoch"
    /\ UNCHANGED <<num_epochs, train_set, valid_set, weight_dict, criterion_weight,
                   heap, best_model, optimizer, grad, best_auc, best_epoch,
                   val_auc_all_epochs, epoch, remaining, vi, batch, outputs,
                   outputs_labels, steps_done, train_end_params>>

Next ==
    \/ ForEpoch
    \/ TrainBatch
    \/ Backward
    \/ OptimizerStep
    \/ ZeroGrad
    \/ ClipGradNorm
    \/ ValidBegin
    \/ ValidBatch
    \/ ComputeAuc
    \/ SelectBest
    \/ EpochEnd

Spec == Init /\ [][Next]_vars

---------------------------------------------------------------------------
(* The properties *)

InBatch == batch.phase \in {"train", "valid"}

\* C1: once the selection of an epoch has run, best_auc is the largest of the
\* validation AUCs seen so far and best_epoch is the last epoch that reached
\* it (before the first epoch both are 0)
C1_BestIsLastMaximum ==
    LET h == val_auc_all_epochs
    IN  pc # "select" =>
           IF h = <<>> THEN best_auc = Whole(0) /\ best_epoch = 0
           ELSE /\ best_epoch \in DOMAIN h
                /\ h[best_epoch] = best_auc
                /\ \A i \in DOMAIN h : Leq(h[i], best_auc)
                /\ \A i \in DOMAIN h : i > best_epoch => h[i] # best_auc

\* two epochs with the same AUC: the later one is the best epoch
C1_Witness ==
    /\ pc = "epoch_end"
    /\ Len(val_auc_all_epochs) = 2
    /\ val_auc_all_epochs[1] = val_auc_all_epochs[2]
    /\ best_epoch = 2

\* C2: torch.save is called at most once, only in the last configured epoch
\* and after that epoch's selection; a run that ends has called it exactly once
C2_CheckpointOnceAtEnd ==
    /\ Len(save_log) <= 1
    /\ (checkpoint = None) <=> (save_log = <<>>)
    /\ save_log # <<>> =>
          /\ save_log[1] = num_epochs
          /\ Len(val_auc_all_epochs) = num_epochs
          /\ checkpoint.epoch = best_epoch
          /\ pc \in {"for_epoch", "done"}
    /\ pc = "done" => save_log = <<num_epochs>>

\* a run of more than one epoch has ended
C2_Witness ==
    /\ pc = "done"
    /\ num_epochs > 1
    /\ save_log = <<num_epochs>>

\* C3: the best snapshot holds the parameters the network had at the end of
\* the train phase of best_epoch, whatever the optimizer did since: the live
\* parameters have moved on, the snapshot and the model_state_dict of the
\* checkpoint have not
C3_SnapshotIsACopy ==
    /\ best_model # None_ref =>
          /\ heap[best_model] = train_end_params[best_epoch]
          /\ Len(train_end_params) > best_epoch => heap[model] # heap[best_model]
    /\ checkpoint # None =>
          checkpoint.model_state_dict = train_end_params[checkpoint.epoch]

\* the checkpoint of a run whose best epoch was not its last one
C3_Witness ==
    /\ checkpoint # None
    /\ checkpoint.epoch < num_epochs
    /\ checkpoint.model_state_dict # heap[model]

\* C4: the file loss of a training batch is computed with the weights of that
\* batch's labels, the file loss of a validation batch with no weight
C4_WeightsInTrainingOnly ==
    /\ batch.phase = "train" =>
          /\ batch.weight = [i \in DOMAIN batch.labels |->
                               IF batch.labels[i] = 0 THEN weight_dict.clean
                               ELSE weight_dict.defect]
          /\ batch.file_loss =
                Mean([i \in DOMAIN batch.outs |->
                        Mul(batch.weight[i], Whole(batch.outs[i].bce))])
    /\ batch.phase = "valid" =>
          /\ batch.weight = None
          /\ batch.file_loss =
                Mean([i \in DOMAIN batch.outs |-> Whole(batch.outs[i].bce)])

\* a validation batch of the second epoch, after two weighted train phases
C4_Witness ==
    /\ batch.phase = "valid"
    /\ epoch = 2
    /\ weight_dict.clean # weight_dict.defect

\* C5: cnt is at most the number of examples of the batch and k lies in
\* [0, args.k], 0 when cnt = 0 and args.k when every example was scored
C5_BlendWithinRange ==
    InBatch =>
       /\ batch.cnt <= Len(batch.labels)
       /\ Leq(Whole(0), batch.k)
       /\ Leq(batch.k, args_k)
       /\ batch.cnt = 0 => batch.k = Whole(0)
       /\ batch.cnt = Len(batch.labels) => batch.k = args_k

\* a short last validation batch all of whose examples were scored
C5_Witness ==
    /\ batch.phase = "valid"
    /\ Len(batch.labels) < BatchSize
    /\ batch.cnt = Len(batch.labels)

\* C6: cnt counts the examples with file label 1 and a line labelled 1; the
\* line losses are those of exactly these examples, in order; the line loss
\* is their mean, or 0 when there is none, and then the loss is the file loss
C6_LineLossOverEligible ==
    InBatch =>
       LET exs == batch.exs
           elig == {i \in DOMAIN exs :
                      /\ exs[i].label = 1
                      /\ \E j \in DOMAIN exs[i].line_label : exs[i].line_label[j] = 1}
           nth(j) == CHOOSE i \in elig : Cardinality({x \in elig : x <= i}) = j
       IN  /\ batch.cnt = Cardinality(elig)
           /\ Len(batch.line_losses) = batch.cnt
           /\ \A j \in 1..batch.cnt :
                 batch.line_losses[j] =
                    jsd(batch.line_atts[nth(j)], exs[nth(j)].line_label, batch.outs[nth(j)].jsd)
           /\ batch.cnt > 0 =>
                 batch.line_loss = Mul(SumSeq(batch.line_losses), Frac(1, batch.cnt))
           /\ batch.cnt = 0 =>
                 /\ batch.line_loss = Whole(0)
                 /\ batch.loss = batch.file_loss

\* a training batch with one scored example and a skipped defective one
C6_Witness ==
    /\ batch.phase = "train"
    /\ batch.cnt = 1
    /\ \E i \in DOMAIN batch.exs : batch.exs[i] = DefectNoLines

\* C7: each class weight is total / (2 * count of the class), 'clean' being
\* the weight of class 0 and 'defect' of class 1, and the rarer class has the
\* larger weight (stated for the classes that occur)
C7_BalancedClassWeights ==
    LET y == Labels(train_set)
        n0 == Count(y, 0)
        n1 == Count(y, 1)
    IN  /\ n0 > 0 => weight_dict.clean.num * 2 * n0 = Len(y) * weight_dict.clean.den
        /\ n1 > 0 => weight_dict.defect.num * 2 * n1 = Len(y) * weight_dict.defect.den
        /\ n0 < n1 => Leq(weight_dict.defect, weight_dict.clean)
        /\ n1 < n0 => Leq(weight_dict.clean, weight_dict.defect)

\* C8: with a single class in the validation labels the run fails in its
\* first validation: nothing is selected, nothing is saved, no AUC is
\* recorded and no step follows; and a run fails for no other reason
C8_UndefinedAucEndsRun ==
    LET y == Labels(valid_set)
        single == Count(y, 0) = 0 \/ Count(y, 1) = 0
    IN  /\ single =>
              /\ pc \notin {"select", "epoch_end", "done"}
              /\ epoch <= 1
              /\ val_auc_all_epochs = <<>>
              /\ best_auc = Whole(0) /\ best_epoch = 0 /\ best_model = None_ref
              /\ checkpoint = None /\ save_log = <<>>
        /\ pc = "failed" => single /\ ~ENABLED Next
        /\ (single /\ pc = "valid" /\ vi > NumValid) => ENABLED ComputeAuc

\* the run has failed
C8_Witness == pc = "failed"

\* C9: the calls of a training batch are backward, clip_grad_norm_, step,
\* zero_grad in this order: what optimizer.step() finds in .grad has norm at
\* most max_grad_norm, and clip_grad_norm_ never runs on zeroed gradients
C9_ClipBeforeStep ==
    /\ pc = "step" => grad <= max_grad_norm
    /\ pc = "clip" => steps_done[Len(steps_done)] # "zero_grad"
    /\ Len(steps_done) = 4 =>
          steps_done = <<"backward", "clip_grad_norm", "step", "zero_grad">>

\* C10: a row of attentions with max = min is normalised to equal finite
\* values, and the line loss and the loss of the batch are finite
C10_DegenerateRowIsUniform ==
    InBatch =>
       /\ \A i \in DOMAIN batch.raw_atts :
             RowMax(batch.raw_atts[i]) = RowMin(batch.raw_atts[i]) =>
                \A j \in DOMAIN batch.line_atts[i] :
                   /\ ~IsNaN(batch.line_atts[i][j])
                   /\ batch.line_atts[i][j] = batch.line_atts[i][1]
       /\ ~IsNaN(batch.line_loss)
       /\ ~IsNaN(batch.loss)

====
